---- MODULE Spec2Model ----
(***************************************************************************)
(* The AO3 listing scraper of src/main.py as a state machine: main(),      *)
(* scrape_works(), scrape_single_work(), apply_sampling() and              *)
(* handle_rate_limit(), the four files the program keeps on disk, the      *)
(* buffered CSV writer, and the ways a run ends (return, exit(0),          *)
(* KeyboardInterrupt, a kill).  A second specification, SpecSampling,      *)
(* applies apply_sampling() to bounded pages as a pure function.  A third, *)
(* SpecTags, is the tag scraper of src/scrape_tags.py: main() and          *)
(* scrape_tag_page().                                                      *)
(***************************************************************************)
EXTENDS Integers, Sequences, FiniteSets, Bags, TLC

(***************************************************************************)
(* Bounds of the model.                                                    *)
(***************************************************************************)
NumPages == 2
NumWorks == 3
MaxRuns == 2
MaxCount == 2
MaxItems == 4
MaxDraw == 5
NumTags == 2
MaxTagRequests == 5

(***************************************************************************)
(* Program constants.                                                      *)
(***************************************************************************)
max_retries == 3
tag_max_retries == 3
DefaultSamplingPercentage == 50
DefaultSamplingN == 2

\* Bits of the significand of a Python float (an IEEE-754 double).
MantissaBits == 53

\* kudos_bins of the configuration, scaled down: the bins are [0,1) and [1,2);
\* a kudos value of 2 or more falls in no bin.
KudosBins == <<0, 1, 2>>

\* The page counter of scrape_works is unbounded; the model stops it here.
PageCap == NumPages + 1

Header == 0
NoResponse == [status |-> -1, marker |-> FALSE]
ConnectionError == [status |-> 0, marker |-> FALSE]

CsvFile == "scraped_works.csv"
PageFile == "last_visited_page.txt"
SeenFile == "seen_work_ids.txt"
StrataFile == "strata_counts.json"

VARIABLES
  config,                 \* the settings of config.ini
  site,                   \* the listing served by the site: page -> works
  files,                  \* names of the files that exist on disk
  csv_file,               \* rows of the CSV on disk
  last_visited_page_txt,  \* content of last_visited_page.txt
  seen_work_ids_txt,      \* lines of seen_work_ids.txt
  strata_counts_json,     \* content of strata_counts.json
  pc,                     \* position of the process
  args,                   \* start_page, end_page, last_visited_page of main()
  strata_counts,          \* the global strata_counts
  seen_work_ids,          \* the global seen_work_ids
  csv_buf,                \* rows written to the csv writer and not yet flushed
  work_count, page, retry_count, should_break,
  works_on_page, sampled_works,
  idx,                    \* position of the for loop in sampled_works
  last_response,          \* the response to the latest listing request
  attempts,               \* listing requests sent for the current page
  requested,              \* the pages requested by the current run, in order
  waited,                 \* whether time.sleep(delay) ran after the latest
                          \* listing request ("no_request" before the first)
  runs,                   \* number of processes started so far
  earlier,                \* how the processes before the latest one ended
  stop_reason,            \* why the latest ended process ended
  stop_page,              \* the page the latest ended process was at
  emitted,                \* ids written by writerow in the current run
  unhandled,              \* the lowest page of the current run with a sampled
                          \* work that was neither written nor skipped as
                          \* seen, 0 if there is none
  tag_pc,                 \* position of the tag scraper
  tags_to_scrape,         \* the lines of tags.txt
  scraped_tags_csv,       \* "Tag Name" of the rows of scraped_tags.csv
  scrape_tags_failed_txt, \* lines of scrape_tags_failed.txt
  tags_to_process,        \* the tags main() still has to scrape
  tag_retry_count,        \* retry_count of scrape_tag_page
  tag_requests,           \* requests sent by the current call of scrape_tag_page
  data,                   \* what scrape_tag_page returned
  startup_rows,           \* number of rows of scraped_tags.csv when main() started
  requested_tags          \* the tags a request was sent for

vars == <<config, site, files, csv_file, last_visited_page_txt, seen_work_ids_txt,
          strata_counts_json, pc, args, strata_counts, seen_work_ids, csv_buf,
          work_count, page, retry_count, should_break, works_on_page,
          sampled_works, idx, last_response, attempts, requested, waited, runs,
          earlier,
          stop_reason, stop_page, emitted, unhandled, tag_pc, tags_to_scrape,
          scraped_tags_csv, scrape_tags_failed_txt, tags_to_process,
          tag_retry_count, tag_requests, data, startup_rows, requested_tags>>

\* The state of the tag scraper, a program of its own.
tag_scraper == <<tag_pc, tags_to_scrape, scraped_tags_csv, scrape_tags_failed_txt,
                 tags_to_process, tag_retry_count, tag_requests, data,
                 startup_rows, requested_tags>>

\* What the scraper of src/main.py never changes.
env == <<config, site, tag_scraper>>

hist == <<runs, earlier, stop_reason, stop_page, unhandled>>

\* What the listing requests of the process have come to.
net == <<last_response, attempts, requested, waited>>

disk == <<files, csv_file, last_visited_page_txt, seen_work_ids_txt, strata_counts_json>>

(***************************************************************************)
(* apply_sampling and its helpers.                                         *)
(***************************************************************************)
Min(a, b) == IF a < b THEN a ELSE b

BinIndexes(kudos_bins) == 1 .. (Len(kudos_bins) - 1)

BinStarts(kudos_bins) == {kudos_bins[i] : i \in BinIndexes(kudos_bins)}

\* bin_start <= kudos < bin_end
InBin(kudos, kudos_bins, i) == kudos_bins[i] <= kudos /\ kudos < kudos_bins[i + 1]

\* The first bin of zip(kudos_bins[:-1], kudos_bins[1:]) that holds kudos
\* (the loop breaks at the first match); 0 when no bin holds it.
BinOf(kudos, kudos_bins) ==
  LET hits == {i \in BinIndexes(kudos_bins) : InBin(kudos, kudos_bins, i)}
  IN IF hits = {} THEN 0 ELSE CHOOSE i \in hits : \A j \in hits : i <= j

ZeroCounts(kudos_bins) == [b \in BinStarts(kudos_bins) |-> 0]

WorksByKudos(works, kudos_bins, i) ==
  SelectSeq(works, LAMBDA w : BinOf(w.kudos, kudos_bins) = i)

CurrentPageStrataCounts(works, kudos_bins) ==
  [b \in BinStarts(kudos_bins) |->
     Cardinality({j \in 1 .. Len(works) :
                    /\ BinOf(works[j].kudos, kudos_bins) # 0
                    /\ kudos_bins[BinOf(works[j].kudos, kudos_bins)] = b})]

\* A variant of MinCount that takes the minimum over all bins, empty ones too.
MinCountAllBins(works, kudos_bins) ==
  LET c == CurrentPageStrataCounts(works, kudos_bins)
  IN CHOOSE m \in {c[b] : b \in DOMAIN c} : \A b \in DOMAIN c : m <= c[b]

\* min(counts) if counts else 0, counts being the positive per-bin counts
MinCount(works, kudos_bins) ==
  LET c == CurrentPageStrataCounts(works, kudos_bins)
      counts == {c[b] : b \in {x \in DOMAIN c : c[x] > 0}}
  IN IF counts = {} THEN 0 ELSE CHOOSE m \in counts : \A n \in counts : m <= n

\* k distinct positions of the population, in any order
Draws(population, k) ==
  LET picks == {f \in [1 .. k -> 1 .. Len(population)] :
                  \A a, b \in 1 .. k : a # b => f[a] # f[b]}
  IN {[j \in 1 .. k |-> population[f[j]]] : f \in picks}

\* k consecutive works of the population, from any position, wrapping around
Windows(population, k) ==
  {[j \in 1 .. k |-> population[((r + j - 1) % Len(population)) + 1]] :
     r \in 0 .. (Len(population) - 1)}

\* random.sample(population, k).  Every draw of a population of up to MaxDraw
\* works is followed; of a longer population only the draws of k consecutive
\* works are.
RandomSample(population, k) ==
  IF k = 0 THEN {<<>>}
  ELSE IF Len(population) <= MaxDraw THEN Draws(population, k)
  ELSE Windows(population, k)

RECURSIVE StrataSampleFrom(_, _, _, _)
StrataSampleFrom(works, kudos_bins, min_count, i) ==
  IF i > Len(kudos_bins) - 1 THEN {<<>>}
  ELSE LET work_bin == WorksByKudos(works, kudos_bins, i)
           here == IF Len(work_bin) > 0 /\ min_count > 0
                     THEN RandomSample(work_bin, min_count)
                     ELSE {<<>>}
       IN {a \o b : a \in here,
                    b \in StrataSampleFrom(works, kudos_bins, min_count, i + 1)}

StrataSample(works, kudos_bins) ==
  StrataSampleFrom(works, kudos_bins, MinCount(works, kudos_bins), 1)

\* strata_counts[bin_start] = strata_counts.get(bin_start, 0) + min_count
StrataCountsAfterSampling(counts, works, kudos_bins) ==
  LET m == MinCount(works, kudos_bins)
  IN [b \in BinStarts(kudos_bins) |->
        IF m > 0 /\ \E i \in BinIndexes(kudos_bins) :
                       kudos_bins[i] = b /\ Len(WorksByKudos(works, kudos_bins, i)) > 0
          THEN counts[b] + m
          ELSE counts[b]]

(***************************************************************************)
(* int(len(works_on_page) * (sampling_percentage / 100)) in IEEE-754       *)
(* double arithmetic, for 1 <= sampling_percentage <= 100.                 *)
(*                                                                         *)
(* The quotient p / 100 lies in [2^-c, 2^(1-c)) and is rounded to the      *)
(* nearest M / 2^(52+c), M an integer: 100 * M = p * 2^(52+c) + err with   *)
(* |err| < 50.  The product k * (M / 2^(52+c)) is k*p/100 +                *)
(* k*err / (100 * 2^(52+c)).  When k*p/100 is no integer, the product and  *)
(* its rounding stay strictly between the two integers around it.  When    *)
(* k*p/100 is an integer N and err >= 0, the rounded product is in         *)
(* [N, N+1).  When err < 0 the product is below N, and it is rounded up to *)
(* N only if it is within half a unit in the last place of N; int() then   *)
(* gives N, and N - 1 otherwise.                                           *)
(***************************************************************************)
RECURSIVE Pow2(_)
Pow2(e) == IF e <= 0 THEN 1 ELSE 2 * Pow2(e - 1)

\* 2^e modulo m
RECURSIVE Pow2Mod(_, _)
Pow2Mod(e, m) == IF e = 0 THEN 1 % m ELSE (2 * Pow2Mod(e - 1, m)) % m

\* floor(log2(n)) for n >= 1
RECURSIVE Log2(_)
Log2(n) == IF n < 2 THEN 0 ELSE 1 + Log2(n \div 2)

\* The least c with p * 2^c >= 100: p / 100 is in [2^-c, 2^(1-c)).
RECURSIVE BinadeFrom(_, _)
BinadeFrom(p, c) == IF p * Pow2(c) >= 100 THEN c ELSE BinadeFrom(p, c + 1)

Binade(p) == BinadeFrom(p, 0)

\* 100 * M - p * 2^(MantissaBits - 1 + c), M the mantissa of the double p / 100
DivisionError(p) ==
  LET rem == (p * Pow2Mod(MantissaBits - 1 + Binade(p), 100)) % 100
  IN IF rem < 50 THEN 0 - rem ELSE 100 - rem

SampleSize(n_works, sampling_percentage) ==
  LET floor == (n_works * sampling_percentage) \div 100
      err == DivisionError(sampling_percentage)
      g == Log2(floor)
      \* half a unit in the last place below floor, times 100 * 2^(52+c)
      e == Binade(sampling_percentage) + g - (IF Pow2(g) = floor THEN 2 ELSE 1)
      rounds_up == IF e >= 0 THEN n_works * (0 - err) <= 100 * Pow2(e)
                             ELSE 2 * n_works * (0 - err) <= 100
  IN IF n_works = 0 \/ (n_works * sampling_percentage) % 100 # 0 \/ err >= 0
       THEN floor
       ELSE IF rounds_up THEN floor ELSE floor - 1

\* A variant of Slice with one colon less: works_on_page[start:sampling_n]
SliceStop(works, start, sampling_n) ==
  [j \in 1 .. (Min(sampling_n, Len(works)) - start) |-> works[start + j]]

\* works_on_page[start::sampling_n], start counted from 0
Slice(works, start, sampling_n) ==
  LET cnt == IF start >= Len(works) THEN 0
             ELSE ((Len(works) - start - 1) \div sampling_n) + 1
  IN [j \in 1 .. cnt |-> works[start + (j - 1) * sampling_n + 1]]

\* The results apply_sampling can return.
ApplySampling(sampling_strategy, sampling_percentage, works, sampling_n, kudos_bins) ==
  CASE sampling_strategy = "strata" -> StrataSample(works, kudos_bins)
    [] sampling_strategy = "random" ->
         RandomSample(works, Min(Len(works), SampleSize(Len(works), sampling_percentage)))
    [] sampling_strategy = "systematic" ->
         {Slice(works, start, sampling_n) : start \in 0 .. (sampling_n - 1)}
    [] OTHER -> {works}

StrataCountsAfter(sampling_strategy, counts, works, kudos_bins) ==
  IF sampling_strategy = "strata"
    THEN StrataCountsAfterSampling(counts, works, kudos_bins)
    ELSE counts

(***************************************************************************)
(* The site and the configuration.                                         *)
(***************************************************************************)
KudosOf(i) == (i - 1) % Len(KudosBins)

\* Works 1..NumWorks; work `untitled` (if any) has no "h4 a" element.
AllWorks(untitled) ==
  [i \in 1 .. NumWorks |-> [id |-> i, kudos |-> KudosOf(i), titled |-> (i # untitled)]]

Sites ==
  {[p \in 1 .. NumPages |-> SelectSeq(AllWorks(u), LAMBDA w : a[w.id] = p)] :
     a \in [1 .. NumWorks -> 1 .. NumPages], u \in {0, 1}}

\* soup.select("li.work") of listing page p
ListingPage(p) == IF p \in DOMAIN site THEN site[p] ELSE <<>>

Strategies == {"none", "strata", "random", "systematic"}

\* The page range with no max_work_count, or a max_work_count (which makes
\* main() drop the page range).
Limits ==
  [start_page : 1 .. NumPages, end_page : 0 .. NumPages, max_work_count : {0}]
    \cup [start_page : {1}, end_page : {NumPages}, max_work_count : 1 .. MaxCount]
    \cup [start_page : {NumPages}, end_page : {NumPages}, max_work_count : {1}]

Configs ==
  [limits : Limits,
   sampling_strategy : Strategies,
   sampling_percentage : {DefaultSamplingPercentage},
   sampling_n : {DefaultSamplingN},
   kudos_bins : {KudosBins},
   file_mode : {"w", "a"}]

\* What requests.get can bring: no response (an exception), or a status and a
\* body that carries "Retry later" or not.
Responses ==
  {ConnectionError} \cup [status : {200, 304, 429, 503}, marker : BOOLEAN]

\* response.raise_for_status() raises
IsHTTPError(response) == response.status >= 400

\* soup.select("li.work") of the response to the request for listing page p:
\* only a 2xx response carries the listing.
Body(response, p) ==
  IF response.status >= 200 /\ response.status < 300 THEN ListingPage(p) ELSE <<>>

(***************************************************************************)
(* The initial state: a working directory without files, no process yet    *)
(* past the first line of main().                                          *)
(***************************************************************************)
NoArgs == [start_page |-> 0, end_page |-> 0, last_visited_page |-> 0]

\* The memory of a process that has not run yet, or has ended.
FreshMemory ==
  /\ args = NoArgs
  /\ strata_counts = ZeroCounts(KudosBins)
  /\ seen_work_ids = {}
  /\ csv_buf = <<>>
  /\ work_count = 0
  /\ page = 0
  /\ retry_count = 0
  /\ should_break = FALSE
  /\ works_on_page = <<>>
  /\ sampled_works = <<>>
  /\ idx = 0
  /\ last_response = NoResponse
  /\ attempts = 0
  /\ requested = <<>>
  /\ waited = "no_request"

\* The tag scraper is not running.
IdleTags ==
  /\ tag_pc = "idle"
  /\ tags_to_scrape = <<>>
  /\ scraped_tags_csv = <<>>
  /\ scrape_tags_failed_txt = <<>>
  /\ tags_to_process = <<>>
  /\ tag_retry_count = 0
  /\ tag_requests = 0
  /\ data = "None"
  /\ startup_rows = 0
  /\ requested_tags = {}

Init ==
  /\ IdleTags
  /\ config \in Configs
  /\ site \in Sites
  /\ files = {}
  /\ csv_file = <<>>
  /\ last_visited_page_txt = 0
  /\ seen_work_ids_txt = {}
  /\ strata_counts_json = ZeroCounts(KudosBins)
  /\ pc = "main"
  /\ FreshMemory
  /\ runs = 1
  /\ earlier = <<>>
  /\ stop_reason = "running"
  /\ stop_page = 0
  /\ emitted = <<>>
  /\ unhandled = 0

\* The process ends: its memory is gone.
ClearMemory ==
  /\ args' = NoArgs
  /\ strata_counts' = ZeroCounts(KudosBins)
  /\ seen_work_ids' = {}
  /\ csv_buf' = <<>>
  /\ work_count' = 0
  /\ page' = 0
  /\ retry_count' = 0
  /\ should_break' = FALSE
  /\ works_on_page' = <<>>
  /\ sampled_works' = <<>>
  /\ idx' = 0

\* Positions inside "with open(full_csv_path, ...) as csvfile".
WriterOpen ==
  {"while", "fetch", "sample", "save_page", "for", "single", "writerow",
   "seen_add", "seen_file", "strata_inc", "strata_save", "counted", "page_end",
   "return"}

Running == {"main", "scrape_works", "cleanup"} \cup WriterOpen

\* An exception (SystemExit of exit(0), KeyboardInterrupt) leaves main(): the
\* with statement closes csvfile, which flushes the writer's buffer; nothing
\* else on disk changes, and the cleanup of main() is not run.
ExitWith(reason) ==
  /\ pc' = "stopped"
  /\ csv_file' = csv_file \o csv_buf
  /\ stop_reason' = reason
  /\ stop_page' = page
  /\ ClearMemory
  /\ UNCHANGED <<env, files, last_visited_page_txt, seen_work_ids_txt,
                 strata_counts_json, runs, earlier, unhandled, emitted>>

(***************************************************************************)
(* main(), up to the call of scrape_works.  json.load gives the counters   *)
(* of strata_counts.json under string keys; scrape_works_open replaces the *)
(* dict before anything reads it.                                          *)
(***************************************************************************)
main_load ==
  /\ pc = "main"
  /\ args' = [start_page |-> IF config.limits.max_work_count # 0 THEN 1 ELSE config.limits.start_page,
              end_page |-> IF config.limits.max_work_count # 0 THEN 0 ELSE config.limits.end_page,
              last_visited_page |-> IF PageFile \in files THEN last_visited_page_txt ELSE 0]
  /\ strata_counts' = IF StrataFile \in files THEN strata_counts_json
                                              ELSE ZeroCounts(config.kudos_bins)
  /\ pc' = "scrape_works"
  /\ UNCHANGED <<env, disk, seen_work_ids, csv_buf, work_count, page,
                 retry_count, should_break, works_on_page, sampled_works, idx,
                 net, hist, emitted>>

(***************************************************************************)
(* scrape_works.                                                           *)
(***************************************************************************)
\* Lines 175-202: reset strata_counts, load the seen ids, open the CSV.
scrape_works_open ==
  /\ pc = "scrape_works"
  /\ strata_counts' = ZeroCounts(config.kudos_bins)
  /\ seen_work_ids' = seen_work_ids \cup
                        (IF SeenFile \in files THEN seen_work_ids_txt ELSE {})
  /\ LET write_header == ~(config.file_mode = "a" /\ CsvFile \in files)
     IN /\ csv_buf' = IF write_header THEN <<Header>> ELSE <<>>
        /\ csv_file' = IF config.file_mode = "a" /\ CsvFile \in files
                         THEN csv_file ELSE <<>>
  /\ files' = files \cup {CsvFile}
  /\ work_count' = 0
  /\ page' = IF args.last_visited_page # 0 THEN args.last_visited_page
                                           ELSE args.start_page
  /\ should_break' = FALSE
  /\ pc' = "while"
  /\ UNCHANGED <<env, last_visited_page_txt, seen_work_ids_txt,
                 strata_counts_json, args, retry_count, works_on_page,
                 sampled_works, idx, net, hist, emitted>>

\* A variant of while_head that leaves the loop one page early: page >= end_page.
while_head_early ==
  /\ pc = "while"
  /\ page <= PageCap
  /\ IF args.end_page # 0 /\ page >= args.end_page
       THEN /\ pc' = "return"
            /\ UNCHANGED <<retry_count, last_response, attempts>>
       ELSE /\ pc' = "fetch"
            /\ retry_count' = 0
            /\ last_response' = NoResponse
            /\ attempts' = 0
  /\ UNCHANGED <<env, disk, args, strata_counts, seen_work_ids, csv_buf,
                 work_count, page, should_break, works_on_page, sampled_works,
                 idx, requested, waited, hist, emitted>>

\* Lines 206-213: the head of the while loop.
while_head ==
  /\ pc = "while"
  /\ page <= PageCap
  /\ IF args.end_page # 0 /\ page > args.end_page
       THEN /\ pc' = "return"
            /\ UNCHANGED <<retry_count, last_response, attempts>>
       ELSE /\ pc' = "fetch"
            /\ retry_count' = 0
            /\ last_response' = NoResponse
            /\ attempts' = 0
  /\ UNCHANGED <<env, disk, args, strata_counts, seen_work_ids, csv_buf,
                 work_count, page, should_break, works_on_page, sampled_works,
                 idx, requested, waited, hist, emitted>>

\* Lines 215-236: one attempt at the listing page, with handle_rate_limit.
fetch_page ==
  /\ pc = "fetch"
  /\ \E response \in Responses :
       /\ last_response' = response
       /\ attempts' = attempts + 1
       /\ requested' = IF attempts = 0 THEN Append(requested, page) ELSE requested
       \* time.sleep(delay) is reached only when requests.get returned
       /\ waited' = IF response = ConnectionError THEN "no" ELSE "yes"
       /\ IF response = ConnectionError \/ IsHTTPError(response)
            THEN \* the except clause
                 IF retry_count + 1 >= max_retries
                   THEN ExitWith("exhausted")
                   ELSE /\ retry_count' = retry_count + 1
                        /\ pc' = "fetch"
                        /\ UNCHANGED <<env, disk, args, strata_counts,
                                       seen_work_ids, csv_buf, work_count, page,
                                       should_break, works_on_page, sampled_works,
                                       idx, hist, emitted>>
            ELSE IF response.marker
                   THEN ExitWith("rate_limit")
                   ELSE /\ works_on_page' = Body(response, page)
                        /\ pc' = "sample"
                        /\ UNCHANGED <<env, disk, args, strata_counts,
                                       seen_work_ids, csv_buf, work_count, page,
                                       retry_count, should_break, sampled_works,
                                       idx, hist, emitted>>

\* Lines 238-244: apply_sampling on the works of the page.
sample_page ==
  /\ pc = "sample"
  /\ sampled_works' \in ApplySampling(config.sampling_strategy, config.sampling_percentage,
                                      works_on_page, config.sampling_n, config.kudos_bins)
  /\ strata_counts' = StrataCountsAfter(config.sampling_strategy, strata_counts,
                                        works_on_page, config.kudos_bins)
  /\ pc' = "save_page"
  /\ UNCHANGED <<env, disk, args, seen_work_ids, csv_buf, work_count, page,
                 retry_count, should_break, works_on_page, idx, net,
                 hist, emitted>>

\* Lines 246-248: write the page number to last_visited_page.txt.
save_page ==
  /\ pc = "save_page"
  /\ last_visited_page_txt' = page
  /\ files' = files \cup {PageFile}
  /\ idx' = 1
  /\ pc' = "for"
  /\ UNCHANGED <<env, csv_file, seen_work_ids_txt, strata_counts_json, args,
                 strata_counts, seen_work_ids, csv_buf, work_count, page, retry_count,
                 should_break, works_on_page, sampled_works, net, hist, emitted>>

\* Lines 249-255: the head of the for loop over sampled_works.
for_head ==
  /\ pc = "for"
  /\ IF idx > Len(sampled_works)
       THEN pc' = "page_end" /\ idx' = idx
       ELSE IF sampled_works[idx].id \in seen_work_ids
              THEN pc' = "for" /\ idx' = idx + 1
              ELSE pc' = "single" /\ idx' = idx
  /\ UNCHANGED <<env, disk, args, strata_counts, seen_work_ids, csv_buf,
                 work_count, page, retry_count, should_break, works_on_page,
                 sampled_works, net, hist, emitted>>

\* Lines 256-262: count the work and check max_work_count.
count_work ==
  /\ pc = "counted"
  /\ work_count' = work_count + 1
  /\ IF config.limits.max_work_count # 0 /\ work_count + 1 >= config.limits.max_work_count
       THEN should_break' = TRUE /\ pc' = "page_end" /\ idx' = idx
       ELSE should_break' = should_break /\ pc' = "for" /\ idx' = idx + 1
  /\ UNCHANGED <<env, disk, args, strata_counts, seen_work_ids, csv_buf,
                 page, retry_count, works_on_page, sampled_works, net,
                 hist, emitted>>

\* Lines 264-268: leave the while loop or move to the next page.
page_end ==
  /\ pc = "page_end"
  /\ IF should_break
       THEN pc' = "return" /\ page' = page
       ELSE pc' = "while" /\ page' = page + 1
  /\ UNCHANGED <<env, disk, args, strata_counts, seen_work_ids, csv_buf,
                 work_count, retry_count, should_break, works_on_page, sampled_works,
                 idx, net, hist, emitted>>

\* scrape_works returns: the with statement closes csvfile.
scrape_works_return ==
  /\ pc = "return"
  /\ csv_file' = csv_file \o csv_buf
  /\ csv_buf' = <<>>
  /\ pc' = "cleanup"
  /\ UNCHANGED <<env, files, last_visited_page_txt, seen_work_ids_txt,
                 strata_counts_json, args, strata_counts, seen_work_ids, work_count,
                 page, retry_count, should_break, works_on_page, sampled_works, idx,
                 net, hist, emitted>>

(***************************************************************************)
(* scrape_single_work, called from the for loop.                           *)
(***************************************************************************)
work == sampled_works[idx]

\* Lines 57-128: the title check, the fields, and the request for the work's
\* own page.  handle_rate_limit exits on a 2xx response that carries the
\* marker; every other outcome only decides date_published.
single_fields ==
  /\ pc = "single"
  /\ IF ~work.titled
       THEN /\ pc' = "counted"
            /\ unhandled' = IF unhandled = 0 THEN page ELSE unhandled
            /\ UNCHANGED <<env, disk, args, strata_counts, seen_work_ids,
                           csv_buf, work_count, page, retry_count, should_break,
                           works_on_page, sampled_works, idx, net, runs, earlier,
                           stop_reason, stop_page, emitted>>
       ELSE \E response \in Responses :
              IF response # ConnectionError /\ ~IsHTTPError(response) /\ response.marker
                THEN ExitWith("rate_limit_work") /\ UNCHANGED net
                ELSE /\ pc' = "writerow"
                     /\ UNCHANGED <<env, disk, args, strata_counts,
                                    seen_work_ids, csv_buf, work_count, page,
                                    retry_count, should_break, works_on_page,
                                    sampled_works, idx, net, hist, emitted>>

\* A variant of single_writerow that marks the work as seen and never writes
\* its row.
single_no_row ==
  /\ pc = "writerow"
  /\ pc' = "seen_add"
  /\ UNCHANGED <<env, disk, args, strata_counts, seen_work_ids, csv_buf, work_count,
                 page, retry_count, should_break, works_on_page, sampled_works, idx,
                 net, hist, emitted>>

\* Lines 144-152: csvwriter.writerow; the row goes to the writer's buffer.
single_writerow ==
  /\ pc = "writerow"
  /\ csv_buf' = Append(csv_buf, work.id)
  /\ emitted' = Append(emitted, work.id)
  /\ pc' = "seen_add"
  /\ UNCHANGED <<env, disk, args, strata_counts, seen_work_ids, work_count,
                 page, retry_count, should_break, works_on_page, sampled_works, idx,
                 net, hist>>

\* Line 155: seen_work_ids.add(work_id)
single_seen_add ==
  /\ pc = "seen_add"
  /\ seen_work_ids' = seen_work_ids \cup {work.id}
  /\ pc' = "seen_file"
  /\ UNCHANGED <<env, disk, args, strata_counts, csv_buf, work_count, page,
                 retry_count, should_break, works_on_page, sampled_works, idx,
                 net, hist, emitted>>

\* Lines 157-159: append the id to seen_work_ids.txt; the file is closed, and
\* so written out, when the with statement ends.
single_seen_file ==
  /\ pc = "seen_file"
  /\ seen_work_ids_txt' = (IF SeenFile \in files THEN seen_work_ids_txt ELSE {})
                            \cup {work.id}
  /\ files' = files \cup {SeenFile}
  /\ pc' = "strata_inc"
  /\ UNCHANGED <<env, csv_file, last_visited_page_txt, strata_counts_json,
                 args, strata_counts, seen_work_ids, csv_buf, work_count, page,
                 retry_count, should_break, works_on_page, sampled_works, idx,
                 net, hist, emitted>>

\* Lines 161-165: strata_counts[bin_start] += 1 for the bin of the work's kudos.
single_strata_inc ==
  /\ pc = "strata_inc"
  /\ LET i == BinOf(work.kudos, config.kudos_bins)
     IN strata_counts' = IF i = 0 THEN strata_counts
                         ELSE [strata_counts EXCEPT ![config.kudos_bins[i]] = @ + 1]
  /\ pc' = "strata_save"
  /\ UNCHANGED <<env, disk, args, seen_work_ids, csv_buf, work_count, page,
                 retry_count, should_break, works_on_page, sampled_works, idx,
                 net, hist, emitted>>

\* Lines 167-169: json.dump(strata_counts) to strata_counts.json.
single_strata_save ==
  /\ pc = "strata_save"
  /\ strata_counts_json' = strata_counts
  /\ files' = files \cup {StrataFile}
  /\ pc' = "counted"
  /\ UNCHANGED <<env, csv_file, last_visited_page_txt, seen_work_ids_txt,
                 args, strata_counts, seen_work_ids, csv_buf, work_count, page,
                 retry_count, should_break, works_on_page, sampled_works, idx,
                 net, hist, emitted>>

(***************************************************************************)
(* main() after scrape_works returned, and the other ways a process ends.  *)
(***************************************************************************)
\* Lines 418-427: remove the three state files.
main_cleanup ==
  /\ pc = "cleanup"
  /\ files' = files \ {PageFile, SeenFile, StrataFile}
  /\ last_visited_page_txt' = 0
  /\ seen_work_ids_txt' = {}
  /\ strata_counts_json' = ZeroCounts(KudosBins)
  /\ pc' = "done"
  /\ stop_reason' = IF should_break THEN "max_count" ELSE "range"
  /\ stop_page' = page
  /\ ClearMemory
  /\ UNCHANGED <<env, csv_file, net, runs, earlier, unhandled, emitted>>

\* Lines 429-431: Ctrl-C at any point of the run.
KeyboardInterrupt ==
  /\ pc \in Running
  /\ ExitWith("interrupt")
  /\ UNCHANGED net

\* The process is killed (or the machine stops): nothing is flushed.
Kill ==
  /\ pc \in Running
  /\ pc' = "stopped"
  /\ stop_reason' = "kill"
  /\ stop_page' = page
  /\ ClearMemory
  /\ UNCHANGED <<env, disk, net, runs, earlier, unhandled, emitted>>

\* The writer's buffer fills up and is written out while the run goes on.
BufferFlush ==
  /\ pc \in WriterOpen
  /\ csv_buf # <<>>
  /\ csv_file' = csv_file \o csv_buf
  /\ csv_buf' = <<>>
  /\ UNCHANGED <<env, files, last_visited_page_txt, seen_work_ids_txt,
                 strata_counts_json, pc, args, strata_counts, seen_work_ids,
                 work_count, page, retry_count, should_break, works_on_page,
                 sampled_works, idx, net, hist, emitted>>

\* How a process ended: main() returned after its cleanup, an exception left
\* it (exit(0), KeyboardInterrupt), or it was killed.
EndKind(reason) ==
  CASE reason \in {"max_count", "range"} -> "return"
    [] reason = "kill" -> "kill"
    [] OTHER -> "exit"

\* The operator starts the program again, with the same config.ini.  (The
\* model follows a killed process no further.)
StartRun ==
  /\ pc \in {"stopped", "done"}
  /\ stop_reason # "kill"
  /\ runs < MaxRuns
  /\ runs' = runs + 1
  /\ pc' = "main"
  /\ last_response' = NoResponse
  /\ attempts' = 0
  /\ requested' = <<>>
  /\ waited' = "no_request"
  /\ earlier' = Append(earlier, EndKind(stop_reason))
  /\ stop_reason' = "running"
  /\ stop_page' = 0
  /\ emitted' = <<>>
  /\ unhandled' = 0
  /\ UNCHANGED <<env, disk, args, strata_counts, seen_work_ids, csv_buf,
                 work_count, page, retry_count, should_break, works_on_page,
                 sampled_works, idx>>

Next ==
  \/ main_load
  \/ scrape_works_open
  \/ while_head
  \/ fetch_page
  \/ sample_page
  \/ save_page
  \/ for_head
  \/ single_fields
  \/ single_writerow
  \/ single_seen_add
  \/ single_seen_file
  \/ single_strata_inc
  \/ single_strata_save
  \/ count_work
  \/ page_end
  \/ scrape_works_return
  \/ main_cleanup
  \/ KeyboardInterrupt
  \/ Kill
  \/ BufferFlush
  \/ StartRun

Spec == Init /\ [][Next]_vars

(***************************************************************************)
(* apply_sampling as a pure function: one call on a bounded page.          *)
(***************************************************************************)
\* The default kudos_bins of main(), and kudos values on both sides of the
\* boundaries.
DefaultKudosBins == <<0, 100, 500, 1000, 5000>>

SampleKudos == {0, 99, 100, 500, 1000, 5000}

SamplePage(kudos_of) ==
  [i \in DOMAIN kudos_of |-> [id |-> i, kudos |-> kudos_of[i], titled |-> TRUE]]

\* Five works in [0,100), two in [100,500), none in the other bins.
ExamplePage == SamplePage(<<0, 100, 99, 0, 100, 99, 0>>)

\* A page of n works (the kudos play no part in random and systematic sampling).
LongPage(n) == SamplePage([i \in 1 .. n |-> 0])

LongPageLengths == {10, 50}

SamplePages ==
  {ExamplePage} \cup {LongPage(n) : n \in LongPageLengths} \cup
  UNION {{SamplePage(k) : k \in [1 .. n -> SampleKudos]} : n \in 0 .. MaxItems}

\* Values of sampling_percentage in (0, 100] and of sampling_n.
SamplePercentages == {1, DefaultSamplingPercentage, 58, 100}

SampleStrides == {DefaultSamplingN, 3}

\* random sampling reads sampling_percentage only, systematic sampling
\* sampling_n only, and the others neither.
SamplingConfigs ==
  {[limits |-> [start_page |-> 1, end_page |-> 0, max_work_count |-> 0],
    sampling_strategy |-> c[1],
    sampling_percentage |-> c[2],
    sampling_n |-> c[3],
    kudos_bins |-> DefaultKudosBins,
    file_mode |-> "w"] :
     c \in ({"none", "strata"} \X {DefaultSamplingPercentage} \X {DefaultSamplingN})
            \cup ({"random"} \X SamplePercentages \X {DefaultSamplingN})
            \cup ({"systematic"} \X {DefaultSamplingPercentage} \X SampleStrides)}

InitSampling ==
  /\ IdleTags
  /\ config \in SamplingConfigs
  /\ site = [p \in 1 .. NumPages |-> <<>>]
  /\ files = {}
  /\ csv_file = <<>>
  /\ last_visited_page_txt = 0
  /\ seen_work_ids_txt = {}
  /\ strata_counts_json = ZeroCounts(DefaultKudosBins)
  /\ pc = "apply_sampling"
  /\ args = NoArgs
  /\ strata_counts = ZeroCounts(DefaultKudosBins)
  /\ seen_work_ids = {}
  /\ csv_buf = <<>>
  /\ work_count = 0
  /\ page = 0
  /\ retry_count = 0
  /\ should_break = FALSE
  /\ works_on_page \in SamplePages
  /\ sampled_works = <<>>
  /\ idx = 0
  /\ last_response = NoResponse
  /\ attempts = 0
  /\ requested = <<>>
  /\ waited = "no_request"
  /\ runs = 1
  /\ earlier = <<>>
  /\ stop_reason = "running"
  /\ stop_page = 0
  /\ emitted = <<>>
  /\ unhandled = 0

apply_sampling ==
  /\ pc = "apply_sampling"
  /\ sampled_works' \in ApplySampling(config.sampling_strategy, config.sampling_percentage,
                                      works_on_page, config.sampling_n, config.kudos_bins)
  /\ strata_counts' = StrataCountsAfter(config.sampling_strategy, strata_counts,
                                        works_on_page, config.kudos_bins)
  /\ pc' = "sampled"
  /\ UNCHANGED <<env, disk, args, seen_work_ids, csv_buf, work_count, page,
                 retry_count, should_break, works_on_page, idx, net,
                 hist, emitted>>

NextSampling == apply_sampling

SpecSampling == InitSampling /\ [][NextSampling]_vars

(***************************************************************************)
(* The tag scraper of src/scrape_tags.py.                                  *)
(***************************************************************************)
TagNames == 1 .. NumTags

\* What session.get can bring: a Timeout, a ConnectionError, another
\* exception, or a response with a status code.
TagResponses ==
  [kind : {"Timeout", "ConnectionError", "Exception"}, status : {0}]
    \cup [kind : {"response"}, status : {200, 404, 429, 522}]

\* The scraper of src/main.py is not running.
IdleCrawl ==
  /\ config \in {c \in SamplingConfigs : c.sampling_strategy = "none"}
  /\ site = [p \in 1 .. NumPages |-> <<>>]
  /\ files = {}
  /\ csv_file = <<>>
  /\ last_visited_page_txt = 0
  /\ seen_work_ids_txt = {}
  /\ strata_counts_json = ZeroCounts(KudosBins)
  /\ pc = "idle"
  /\ FreshMemory
  /\ runs = 1
  /\ earlier = <<>>
  /\ stop_reason = "running"
  /\ stop_page = 0
  /\ emitted = <<>>
  /\ unhandled = 0

crawl == <<config, site, disk, pc, args, strata_counts, seen_work_ids, csv_buf,
           work_count, page, retry_count, should_break, works_on_page,
           sampled_works, idx, net, hist, emitted>>

\* tags.txt holds up to NumTags lines; scraped_tags.csv may exist already,
\* with the rows of an earlier run.
InitTags ==
  /\ IdleCrawl
  /\ tag_pc = "main"
  /\ tags_to_scrape \in UNION {[1 .. n -> TagNames] : n \in 0 .. NumTags}
  /\ scraped_tags_csv \in UNION {[1 .. n -> TagNames] : n \in 0 .. 1}
  /\ scrape_tags_failed_txt = <<>>
  /\ tags_to_process = <<>>
  /\ tag_retry_count = 0
  /\ tag_requests = 0
  /\ data = "None"
  /\ startup_rows = Len(scraped_tags_csv)
  /\ requested_tags = {}

\* A variant of scrape_tags_main without the seen_tags filter.
scrape_tags_main_unfiltered ==
  /\ tag_pc = "main"
  /\ tags_to_process' = tags_to_scrape
  /\ tag_pc' = "for"
  /\ UNCHANGED <<crawl, tags_to_scrape, scraped_tags_csv, scrape_tags_failed_txt,
                 tag_retry_count, tag_requests, data, startup_rows, requested_tags>>

\* main(), lines 153-184: the tags of tags.txt that are in no row of the CSV.
scrape_tags_main ==
  /\ tag_pc = "main"
  /\ LET seen_tags == {scraped_tags_csv[i] : i \in DOMAIN scraped_tags_csv}
     IN tags_to_process' = SelectSeq(tags_to_scrape, LAMBDA t : t \notin seen_tags)
  /\ tag_pc' = "for"
  /\ UNCHANGED <<crawl, tags_to_scrape, scraped_tags_csv, scrape_tags_failed_txt,
                 tag_retry_count, tag_requests, data, startup_rows, requested_tags>>

\* Line 186-187 and 52-53: the for loop calls scrape_tag_page for the next tag.
scrape_tags_for ==
  /\ tag_pc = "for"
  /\ IF tags_to_process = <<>>
       THEN tag_pc' = "done" /\ UNCHANGED <<tag_retry_count, tag_requests>>
       ELSE tag_pc' = "get" /\ tag_retry_count' = 0 /\ tag_requests' = 0
  /\ UNCHANGED <<crawl, tags_to_scrape, scraped_tags_csv, scrape_tags_failed_txt,
                 tags_to_process, data, startup_rows, requested_tags>>

\* Lines 55-136: one turn of the while loop of scrape_tag_page, with the test
\* of the loop condition that follows it.
scrape_tag_page ==
  /\ tag_pc = "get"
  /\ tag_requests < MaxTagRequests
  /\ tag_requests' = tag_requests + 1
  /\ requested_tags' = requested_tags \cup {Head(tags_to_process)}
  /\ \E response \in TagResponses :
       CASE response.kind = "response" /\ response.status = 429 ->
              \* time.sleep(60); continue
              /\ tag_pc' = "get"
              /\ UNCHANGED <<tag_retry_count, data>>
         [] response.kind \in {"Timeout", "ConnectionError"}
              \/ (response.kind = "response" /\ response.status = 522) ->
              /\ tag_retry_count' = tag_retry_count + 1
              /\ IF tag_retry_count + 1 < tag_max_retries
                   THEN tag_pc' = "get" /\ UNCHANGED data
                   ELSE tag_pc' = "returned" /\ data' = "None"
         [] response.kind = "response" /\ response.status = 200 ->
              /\ tag_pc' = "returned"
              /\ data' = "data"
              /\ UNCHANGED tag_retry_count
         [] OTHER ->
              \* another status, or another exception: return None
              /\ tag_pc' = "returned"
              /\ data' = "None"
              /\ UNCHANGED tag_retry_count
  /\ UNCHANGED <<crawl, tags_to_scrape, scraped_tags_csv, scrape_tags_failed_txt,
                 tags_to_process, startup_rows>>

\* Lines 188-193: a row for the tag, or a line in scrape_tags_failed.txt.
scrape_tags_record ==
  /\ tag_pc = "returned"
  /\ IF data = "data"
       THEN /\ scraped_tags_csv' = Append(scraped_tags_csv, Head(tags_to_process))
            /\ UNCHANGED scrape_tags_failed_txt
       ELSE /\ scrape_tags_failed_txt' = Append(scrape_tags_failed_txt, Head(tags_to_process))
            /\ UNCHANGED scraped_tags_csv
  /\ tags_to_process' = Tail(tags_to_process)
  /\ tag_pc' = "for"
  /\ UNCHANGED <<crawl, tags_to_scrape, tag_retry_count, tag_requests, data,
                 startup_rows, requested_tags>>

NextTags ==
  \/ scrape_tags_main
  \/ scrape_tags_for
  \/ scrape_tag_page
  \/ scrape_tags_record

SpecTags == InitTags /\ [][NextTags]_vars

(***************************************************************************)
(* Properties.                                                             *)
(***************************************************************************)
Count(seq, x) == Cardinality({i \in DOMAIN seq : seq[i] = x})

WorkIds == 1 .. NumWorks

\* Every process before the current one was stopped by exit(0) or Ctrl-C
\* (none completed, none was killed).
OnlyStoppedBefore == \A k \in DOMAIN earlier : earlier[k] = "exit"

\* C1  Seen-set exclusivity: across a run that is stopped (rate-limit exit,
\* fetch exhaustion, Ctrl-C between any two statements) and resumed in append
\* mode, no work id is written to the CSV more than once.
SeenSetExclusivity ==
  (config.file_mode = "a" /\ OnlyStoppedBefore)
    => \A id \in WorkIds : Count(csv_file \o csv_buf, id) <= 1

\* C2  Add-iff-written: in every state, a kill at any point included, an id
\* is in seen_work_ids.txt if and only if its row is in the CSV file on disk.
AddIffWritten ==
  (runs = 1 /\ pc \notin {"cleanup", "done"})
    => \A id \in WorkIds :
         (SeenFile \in files /\ id \in seen_work_ids_txt)
           <=> (CsvFile \in files /\ Count(csv_file, id) > 0)

\* The ids an uninterrupted run over the configured page range writes with no
\* sampling: the titled works of the pages start_page..end_page, once each.
RangeIds ==
  {id \in WorkIds : \E p \in DOMAIN site : \E k \in DOMAIN site[p] :
     /\ site[p][k].id = id
     /\ site[p][k].titled
     /\ p >= config.limits.start_page
     /\ p <= config.limits.end_page}

SinkIsRangeOnce ==
  \A id \in WorkIds : Count(csv_file, id) = (IF id \in RangeIds THEN 1 ELSE 0)

PageRangeRun ==
  /\ config.sampling_strategy = "none"
  /\ config.limits.max_work_count = 0
  /\ config.limits.end_page # 0

\* C3  Idempotent resume: with no sampling, a run interrupted after any number
\* of records and resumed from the persisted position and seen-set ends with
\* the records of an uninterrupted run over the same page range.
IdempotentResume ==
  (/\ PageRangeRun
   /\ config.file_mode = "a"
   /\ earlier # <<>>
   /\ OnlyStoppedBefore
   /\ pc = "done"
   /\ stop_reason = "range")
    => SinkIsRangeOnce

\* The page the next run requests first (main lines 358-364, 402-404 and
\* scrape_works lines 199-202).
NextFirstPage ==
  IF PageFile \in files /\ last_visited_page_txt # 0 THEN last_visited_page_txt
  ELSE IF config.limits.max_work_count # 0 THEN 1
  ELSE config.limits.start_page

\* C4  Resume at the failed page: when the fetch of page p ends the run (rate
\* limit or retries exhausted), the persisted position is p, so the next run
\* starts by fetching page p.
ResumeAtFailedPage ==
  (pc = "stopped" /\ stop_reason \in {"rate_limit", "exhausted"})
    => NextFirstPage = stop_page

\* A step that sends a listing request and receives its response (or its
\* failure).
ListingResponseStep == attempts' = attempts + 1

\* C5  Rate-limit halt: a listing response whose body carries the marker,
\* whatever its status, halts the run at once (no further request) and leaves
\* the persisted position as it was.
RateLimitHalt ==
  [][(ListingResponseStep /\ last_response'.marker)
       => (pc' = "stopped" /\ UNCHANGED <<files, last_visited_page_txt>>)]_vars

\* C6  Max-count stop: a run that stops because max_work_count = M was reached
\* has written exactly M records.
MaxCountStop ==
  (should_break \/ stop_reason = "max_count")
    => Len(emitted) = config.limits.max_work_count

StateFiles == {PageFile, SeenFile, StrataFile}

\* C7  Cleanup only on full success: a state file is removed only when the
\* run ended by exhausting the configured page range.
CleanupOnlyOnFullSuccess ==
  [][(\E f \in StateFiles : f \in files /\ f \notin files')
       => stop_reason' = "range"]_vars

\* Number of works of seq whose kudos fall in bin i.
InBinCount(seq, kudos_bins, i) ==
  Cardinality({j \in DOMAIN seq : InBin(seq[j].kudos, kudos_bins, i)})

\* The minimum of the positive per-bin populations of the page, 0 if none.
PageMinimum(works, kudos_bins) ==
  LET pops == {InBinCount(works, kudos_bins, i) : i \in BinIndexes(kudos_bins)} \ {0}
  IN IF pops = {} THEN 0 ELSE CHOOSE m \in pops : \A n \in pops : m <= n

\* C8  Strata sampling is page-local and balanced: with m the minimum positive
\* per-bin population of the page, the sample holds exactly m distinct works of
\* the page from every non-empty bin, and nothing else.
StrataBalanced ==
  (pc = "sampled" /\ config.sampling_strategy = "strata")
    => LET bins == config.kudos_bins
           m == PageMinimum(works_on_page, bins)
       IN /\ \A i \in BinIndexes(bins) :
               InBinCount(sampled_works, bins, i) =
                 (IF InBinCount(works_on_page, bins, i) > 0 THEN m ELSE 0)
          /\ \A j \in DOMAIN sampled_works :
               /\ \E k \in DOMAIN works_on_page : works_on_page[k] = sampled_works[j]
               /\ \E i \in BinIndexes(bins) : InBin(sampled_works[j].kudos, bins, i)
          /\ \A j, k \in DOMAIN sampled_works :
               j # k => sampled_works[j].id # sampled_works[k].id

\* Bin populations 5, 2, 0 give 2, 2, 0.
StrataBalancedWitness ==
  /\ pc = "sampled"
  /\ config.sampling_strategy = "strata"
  /\ works_on_page = ExamplePage
  /\ InBinCount(sampled_works, config.kudos_bins, 1) = 2
  /\ InBinCount(sampled_works, config.kudos_bins, 2) = 2
  /\ InBinCount(sampled_works, config.kudos_bins, 3) = 0
  /\ Len(sampled_works) = 4

\* Number of records emitted in this run whose kudos fall in the bin that
\* starts at b.
EmittedInBin(b) ==
  Cardinality({k \in DOMAIN emitted :
                 LET i == BinOf(KudosOf(emitted[k]), config.kudos_bins)
                 IN i # 0 /\ config.kudos_bins[i] = b})

\* C9  Strata counter invariant: between item emissions, each strata counter
\* equals the number of records emitted in this run in its bin.
StrataCounterInvariant ==
  pc = "for"
    => \A b \in BinStarts(config.kudos_bins) : strata_counts[b] = EmittedInBin(b)

\* C10  Strata counters survive restarts: when a run starts with a persisted
\* strata_counts.json, the counters in use at its first emission continue from
\* the persisted values.
StrataCountersSurviveRestart ==
  (pc = "strata_inc" /\ Len(emitted) = 1 /\ StrataFile \in files)
    => \A b \in BinStarts(config.kudos_bins) : strata_counts[b] >= strata_counts_json[b]

\* C11  Random sampling bound: for a page of k works and a percentage p in
\* (0,100], random sampling returns exactly floor(k*p/100) works, all of them
\* distinct works of the page.
RandomSampleExact ==
  (pc = "sampled" /\ config.sampling_strategy = "random")
    => /\ Len(sampled_works) * 100 <= Len(works_on_page) * config.sampling_percentage
       /\ Len(works_on_page) * config.sampling_percentage < (Len(sampled_works) + 1) * 100
       /\ \A j \in DOMAIN sampled_works :
            \E k \in DOMAIN works_on_page : works_on_page[k] = sampled_works[j]
       /\ \A j, k \in DOMAIN sampled_works :
            j # k => sampled_works[j].id # sampled_works[k].id

\* The positions r, r+n, r+2n, ... below k, counted from 0.
StrideIndexes(r, n, k) == {i \in 0 .. (k - 1) : i >= r /\ (i - r) % n = 0}

\* C12  Systematic sampling: for stride n and a page of k works, the result is,
\* for some offset r with 0 <= r < n, exactly the works at the positions r,
\* r+n, r+2n, ... below k, in page order.
SystematicStride ==
  (pc = "sampled" /\ config.sampling_strategy = "systematic")
    => \E r \in 0 .. (config.sampling_n - 1) :
         LET at == StrideIndexes(r, config.sampling_n, Len(works_on_page))
         IN /\ Len(sampled_works) = Cardinality(at)
            /\ \A i \in at :
                 sampled_works[Cardinality({h \in at : h <= i})] = works_on_page[i + 1]

\* Stride 3 on the page of 7 works, offset 2: the works at positions 2 and 5.
SystematicStrideWitness ==
  /\ pc = "sampled"
  /\ config.sampling_strategy = "systematic"
  /\ config.sampling_n = 3
  /\ works_on_page = ExamplePage
  /\ sampled_works = <<ExamplePage[3], ExamplePage[6]>>

\* An attempt that failed: no response, or a status outside 2xx.
FailedAttempt(response) ==
  response = ConnectionError \/ response.status < 200 \/ response.status >= 300

\* C13  Bounded retry and fatal exhaustion: at most 3 requests are sent for one
\* listing page; a connection failure, a timeout or a non-2xx status uses up
\* one attempt (the page is requested again, or, at the third failure, the run
\* halts with no further request and no item emitted).
BoundedRetry ==
  [][ListingResponseStep
       => /\ attempts' <= 3
          /\ FailedAttempt(last_response')
               => /\ emitted' = emitted
                  /\ IF attempts' < 3 THEN pc' = "fetch" /\ page' = page
                                      ELSE pc' = "stopped"]_vars

\* C14  Rate-limit status is escalated, not retried: a listing response with
\* status 429 halts the run with the persisted state as it was; the page is
\* not requested again.
RateLimitStatusHalt ==
  [][(ListingResponseStep /\ last_response'.status = 429)
       => (pc' = "stopped" /\ UNCHANGED <<files, last_visited_page_txt,
                                          seen_work_ids_txt, strata_counts_json>>)]_vars

\* A step that sends the request of scrape_tag_page.
TagRequestStep == tag_requests' = tag_requests + 1

\* C15  The tag fetcher does not retry forever: whatever the server answers,
\* every request of scrape_tag_page either ends the call or uses up one of its
\* 3 retries, so that a call sends at most 3 requests and returns.
TagFetchBounded ==
  [][TagRequestStep
       => /\ tag_requests' <= 3
          /\ tag_pc' = "returned" \/ tag_retry_count' = tag_retry_count + 1]_vars


\* C16  Delay after every attempt: when a listing request is sent after an
\* earlier one of the same run, the delay was waited in between, whether the
\* earlier attempt succeeded, brought a bad status, or failed to connect.
DelayBetweenRequests ==
  [][(ListingResponseStep /\ waited # "no_request") => waited = "yes"]_vars

\* The page scrape_works starts at (lines 199-202).
FirstPage ==
  IF args.last_visited_page # 0 THEN args.last_visited_page ELSE args.start_page

\* C17  Natural end of listing: a run with no end page stops once it has
\* reached a page with zero items; it requests no page after that one.
NaturalEnd ==
  [][(ListingResponseStep /\ args.end_page = 0)
       => \A q \in FirstPage .. (page - 1) : ListingPage(q) # <<>>]_vars

\* C18  Position never runs ahead: the page number in last_visited_page.txt is
\* never greater than the page being worked on, nor than a page of the run
\* with a sampled work that was neither written nor skipped as seen; this
\* holds in the states Ctrl-C leaves as well.
PositionNotAhead ==
  PageFile \in files
    => /\ pc \in WriterOpen => last_visited_page_txt <= page
       /\ unhandled # 0 => last_visited_page_txt <= unhandled

Written(id) == Count(emitted, id) > 0

\* Positions between the call of scrape_single_work and the max_work_count check.
ItemPositions ==
  {"single", "writerow", "seen_add", "seen_file", "strata_inc", "strata_save", "counted"}

\* C19  Per-item ordering: for a sampled work that is not skipped, the row is
\* written first, then the id is added to seen_work_ids, then to
\* seen_work_ids.txt, then the strata counter is updated, then written to
\* strata_counts.json, and only then the work is counted and max_work_count
\* checked.
PerItemOrder ==
  [][(pc \in ItemPositions /\ pc' \in ItemPositions \cup {"for", "page_end"})
       => /\ emitted' # emitted
               => /\ emitted' = Append(emitted, work.id)
                  /\ work.id \notin seen_work_ids
          /\ seen_work_ids' # seen_work_ids
               => /\ seen_work_ids' = seen_work_ids \cup {work.id}
                  /\ Written(work.id)
                  /\ ~(SeenFile \in files /\ work.id \in seen_work_ids_txt)
          /\ seen_work_ids_txt' # seen_work_ids_txt
               => /\ seen_work_ids_txt' = seen_work_ids_txt \cup {work.id}
                  /\ Written(work.id)
                  /\ work.id \in seen_work_ids
                  /\ strata_counts' = strata_counts
          /\ strata_counts' # strata_counts
               => /\ SeenFile \in files /\ work.id \in seen_work_ids_txt
                  /\ strata_counts_json' = strata_counts_json
          /\ (strata_counts_json' # strata_counts_json \/ (StrataFile \in files') # (StrataFile \in files))
               => /\ strata_counts_json' = strata_counts
                  /\ SeenFile \in files /\ work.id \in seen_work_ids_txt
                  /\ work_count' = work_count
          /\ work_count' # work_count
               => /\ work_count' = work_count + 1
                  /\ should_break' = (config.limits.max_work_count # 0
                                        /\ work_count' >= config.limits.max_work_count)
                  /\ Written(work.id)
                       => /\ work.id \in seen_work_ids
                          /\ SeenFile \in files /\ work.id \in seen_work_ids_txt
                          /\ StrataFile \in files /\ strata_counts_json = strata_counts]_vars

\* The first work of a run has gone through all the steps: written, seen in
\* memory and on disk, its strata counter raised and saved, and counted.
PerItemOrderWitness ==
  /\ pc = "for"
  /\ work_count = 1
  /\ Len(emitted) = 1
  /\ emitted[1] \in seen_work_ids
  /\ SeenFile \in files /\ emitted[1] \in seen_work_ids_txt
  /\ StrataFile \in files /\ strata_counts_json = strata_counts
  /\ \E b \in BinStarts(config.kudos_bins) : strata_counts_json[b] > 0

\* C20  Extraction failure is local: when scrape_single_work returns without a
\* row (the work has no title), no row is written for the work, its id is
\* added to the seen ids neither in memory nor on disk, and the for loop goes
\* on to the remaining sampled works of the page.
ExtractionFailureLocal ==
  [][(pc \in {"single", "counted"} /\ ~work.titled /\ pc' # "stopped")
       => /\ emitted' = emitted
          /\ csv_file' \o csv_buf' = csv_file \o csv_buf
          /\ seen_work_ids' = seen_work_ids
          /\ seen_work_ids_txt' = seen_work_ids_txt
          /\ (pc = "counted" /\ pc' # pc /\ idx < Len(sampled_works))
               => (pc' = "for" /\ idx' = idx + 1)]_vars

\* The pages first, first + 1, ..., last in ascending order.
PageRange(first, last) ==
  [i \in 1 .. (IF last >= first THEN last - first + 1 ELSE 0) |-> first + i - 1]

\* The for loop has passed over every sampled work of the page: each was
\* written or skipped as seen (its id is in seen_work_ids), or had no record
\* to extract.
PageHandled ==
  /\ idx > Len(sampled_works)
  /\ \A j \in DOMAIN sampled_works :
       sampled_works[j].id \in seen_work_ids \/ ~sampled_works[j].titled

\* C21  Page sequencing: with an end page and no max-count stop, the pages a
\* run requests are first, first + 1, ... in ascending order, none above
\* end_page; a page after the first is requested only when every sampled work
\* of the page before it was handled; and a run that no failure stops has
\* requested exactly the pages first .. end_page.
PageSequencing ==
  (pc \in WriterOpen \cup {"cleanup"} /\ args.end_page # 0 /\ ~should_break)
    => /\ requested = PageRange(FirstPage, FirstPage + Len(requested) - 1)
       /\ \A i \in DOMAIN requested : requested[i] <= args.end_page
       /\ (pc \in {"while", "fetch"} /\ page > FirstPage) => PageHandled
       /\ pc = "fetch" => requested \o (IF attempts = 0 THEN <<page>> ELSE <<>>)
                             = PageRange(FirstPage, page)
       /\ pc = "cleanup" => requested = PageRange(FirstPage, args.end_page)

\* A run over pages 1..NumPages that has requested them all and has written a
\* record on the way.
PageSequencingWitness ==
  /\ pc = "cleanup"
  /\ ~should_break
  /\ args.end_page = NumPages
  /\ requested = PageRange(1, NumPages)
  /\ emitted # <<>>

\* C22  Initial position: the first page a run requests is the page number in
\* last_visited_page.txt when that file exists, and the start_page of the
\* configuration otherwise.
InitialPosition ==
  [][(ListingResponseStep /\ requested = <<>>)
       => page = (IF PageFile \in files THEN last_visited_page_txt
                                        ELSE config.limits.start_page)]_vars

\* C23  Emitted counter matches the sink: between the items of a run, and
\* whenever work_count has just been compared with max_work_count, work_count
\* is the number of rows the run has written.
EmittedCounterMatchesSink ==
  pc \in {"for", "page_end"} => work_count = Len(emitted)

\* The tags that are rows of scraped_tags.csv when main() starts.
StartupTags == {scraped_tags_csv[i] : i \in 1 .. startup_rows}

\* Rows for tag t appended to scraped_tags.csv by this run.
Appended(t) ==
  Cardinality({i \in DOMAIN scraped_tags_csv : i > startup_rows /\ scraped_tags_csv[i] = t})

\* C24  Tag scraper outcome accounting: no request is sent for a tag that is a
\* row of the CSV at startup, and when main() has ended every other entry of
\* the input has exactly one outcome on record, a row appended to the CSV or a
\* line appended to scrape_tags_failed.txt (a name that the input holds n
\* times has n outcomes).
TagOutcomeAccounting ==
  /\ requested_tags \cap StartupTags = {}
  /\ tag_pc = "done"
       => \A t \in TagNames :
            Appended(t) + Count(scrape_tags_failed_txt, t)
              = (IF t \in StartupTags THEN 0 ELSE Count(tags_to_scrape, t))

\* A finished run over an input with a tag of the CSV and another tag, for
\* which a row was appended.
TagOutcomeAccountingWitness ==
  /\ tag_pc = "done"
  /\ \E i \in DOMAIN tags_to_scrape : tags_to_scrape[i] \in StartupTags
  /\ \E t \in TagNames \ StartupTags : Appended(t) = 1 /\ Count(tags_to_scrape, t) = 1

====
